---- MODULE Spec2Model ----
(***************************************************************************)
(* PhishNet API (apps/api/app/main.py, ai_engine.py, models.py): the       *)
(* detection orchestrator, the heuristic engine, the classifier adapter    *)
(* and the open-safely render-job manager, as a state machine over the     *)
(* tables the handlers read and write.                                     *)
(*                                                                         *)
(* Strings the code takes apart are modelled by their parts: a host is the *)
(* sequence of its dot-separated labels, a text is the sequence of its     *)
(* words and phrases, a reason is a text with the interpolated host.       *)
(* A Python exception is a result with raised = TRUE.                      *)
(***************************************************************************)
EXTENDS Integers, Sequences, FiniteSets, TLC

VARIABLES
    ollama_base_url,  \* os.getenv("OLLAMA_BASE_URL") is set (main.py:38)
    emails,           \* table emails: id -> Email row
    detections,       \* table detections, in autoincrement order
    rewrites,         \* table rewrites, in autoincrement order
    jobs,             \* table open_safely_jobs: job_id -> OpenSafelyJob row
    artifacts,        \* table artifacts, in autoincrement order
    files,            \* the artifact store: {<<job_id, name>>} that exist
    reqs,             \* open-safely requests in flight: job_id -> handler position
    calls,            \* number of requests received so far, per operation
    completed,        \* number of requests answered 200 so far, per operation
    resp              \* the last HTTP response sent

vars == <<ollama_base_url, emails, detections, rewrites, jobs, artifacts, files, reqs, calls,
          completed, resp>>

----------------------------------------------------------------------------
(* Bounds of the model *)

MaxOpenCalls == 2       \* open-safely requests per behaviour
MaxReadCalls == 1       \* job-status requests per behaviour
MaxUrls == 2            \* length of the URL lists drawn from the pool
MaxBodyLen == 3         \* tokens of the body texts that rewrite is run on
MaxRequests == 3        \* requests per behaviour of the whole API

(* Program constants *)

HeuristicUrlLimit == 20       \* urls[:20]
GuardrailUrlLimit == 25       \* urls[:25]
ScamPoints == 50
UrgentPoints == 25
IpPoints == 80
PunycodePoints == 80
MismatchPoints == 40
HeuristicPhishingCut == 65
HeuristicSuspiciousCut == 30
GuardrailFloor == 80
GuardrailScore == 85
BenignRepairAbove == 40
BenignRepairScore == 10
PhishingRepairBelow == 60
PhishingRepairScore == 80
SentinelScore == 50
RendererOk == 200

----------------------------------------------------------------------------
(* Small helpers on sequences *)

Min(a, b) == IF a < b THEN a ELSE b
Max(a, b) == IF a > b THEN a ELSE b

\* s[:n]
Take(s, n) == SubSeq(s, 1, Min(n, Len(s)))

\* s[-n:]
Last(s, n) == SubSeq(s, Len(s) - n + 1, Len(s))

\* a.endswith("." + b) for dot-free labels: b is a proper label suffix of a
EndsWithDot(a, b) == Len(b) > 0 /\ Len(a) > Len(b) /\ Last(a, Len(b)) = b

----------------------------------------------------------------------------
(* URL / domain utilities *)

\* \d{1,3}: the labels of the model that are one to three digits
DigitGroups == {"1", "5", "10", "168", "192"}

\* the labels of the model that contain the substring "xn--"
XnLabels == {"xn--pypal-4ve", "axn--b"}

\* re.fullmatch(r"\d{1,3}(?:\.\d{1,3}){3}", host)
looks_like_ip(host) == Len(host) = 4 /\ \A i \in 1..4 : host[i] \in DigitGroups

\* "xn--" in host
has_xn(host) == \E i \in DOMAIN host : host[i] \in XnLabels

public_suffix_2 == {<<"co", "uk">>, <<"com", "au">>, <<"co", "in">>, <<"co", "jp">>,
                    <<"com", "br">>, <<"gov", "uk">>, <<"ac", "uk">>}

registrable_domain(domain) ==
    IF Len(domain) <= 2 THEN domain
    ELSE IF Last(domain, 2) \in public_suffix_2 /\ Len(domain) >= 3
         THEN Last(domain, 3)
         ELSE Last(domain, 2)

domain_matches(a, b) ==
    IF a = <<>> \/ b = <<>> THEN FALSE
    ELSE LET ra == registrable_domain(a)
             rb == registrable_domain(b)
         IN ra = rb \/ EndsWithDot(a, rb) \/ EndsWithDot(b, ra)

\* urlparse(u).hostname: the host, None (the empty host here), or ValueError
\* ("Invalid IPv6 URL") for a URL with an unmatched bracket such as http://[
url_hostname(u) ==
    IF u.bracket THEN [raised |-> TRUE, host |-> <<>>]
    ELSE [raised |-> FALSE, host |-> u.host]

generic_domains == {<<"gmail", "com">>, <<"yahoo", "com">>, <<"hotmail", "com">>,
                    <<"outlook", "com">>, <<"icloud", "com">>}

siblings(reg) ==
    IF reg = <<"google", "com">> THEN
        {<<"google", "dev">>, <<"youtube", "com">>, <<"gmail", "com">>,
         <<"googlesource", "com">>, <<"gstatic", "com">>, <<"appspot", "com">>,
         <<"googleusercontent", "com">>}
    ELSE IF reg = <<"microsoft", "com">> THEN
        {<<"office", "com">>, <<"office365", "com">>, <<"azure", "com">>,
         <<"linkedin", "com">>, <<"live", "com">>, <<"sharepoint", "com">>,
         <<"microsoftonline", "com">>}
    ELSE IF reg = <<"amazon", "com">> THEN
        {<<"media-amazon", "com">>, <<"amazonaws", "com">>, <<"aws", "amazon", "com">>,
         <<"amazon", "co", "uk">>, <<"amazon", "ca">>}
    ELSE {}

sibling_keys == {<<"google", "com">>, <<"microsoft", "com">>, <<"amazon", "com">>}

----------------------------------------------------------------------------
(* Heuristic scoring engine: _heuristic_detect_fallback *)

\* str.lower() on the words of the model
Lower(w) ==
    IF w = "IMMEDIATELY" THEN "immediately"
    ELSE IF w = "PHISHING" THEN "phishing"
    ELSE IF w = "Benign" THEN "benign"
    ELSE IF w = "HTTP://" THEN "http://"
    ELSE IF w = "Https://" THEN "https://"
    ELSE w

scam_phrases == {"compensation fund", "winning notification", "inheritance claim",
                 "million usd", "western union"}

urgent_words == {"immediately", "account suspended", "action required",
                 "security alert", "terminate", "verify your account"}

\* a match without .lower(): the text's own letter case
InTextCaseSensitive(p, text) == \E i \in DOMAIN text : text[i] = p

\* p in text, for a phrase p and a text given as its words and phrases
InText(p, text) == \E i \in DOMAIN text : Lower(text[i]) = p

\* a reason string; the f-strings carry the sender domain and the host
Reason(t) == [text |-> t, sender |-> <<>>, host |-> <<>>]
ReasonHost(t, host) == [text |-> t, sender |-> <<>>, host |-> host]
ReasonMismatch(sender, host) ==
    [text |-> "Fallback: Link mismatch", sender |-> sender, host |-> host]

\* sender_email.split("@")[-1] if "@" in sender_email else ""
SenderDomain(e) == IF e.from_addr.has_at THEN e.from_addr.domain ELSE <<>>

\* lines 94-99: the link's host is explained by the sender's domain
LinkIsSafe(sender_domain, host) ==
    LET sender_reg == registrable_domain(sender_domain)
        host_reg == registrable_domain(host)
    IN \/ domain_matches(sender_domain, host)
       \/ /\ sender_reg \in sibling_keys
          /\ \E s \in siblings(sender_reg) :
                host_reg = registrable_domain(s) \/ EndsWithDot(host, s)

\* the body of the loop over urls[:20], for one URL
HeuristicUrlStep(st, u, sender_domain) ==
    LET h == url_hostname(u)
        host == h.host
        ip == looks_like_ip(host) /\ ~st.has_ip
        st1 == IF ip
               THEN [st EXCEPT !.reasons = Append(@, ReasonHost("Fallback: Link uses raw IP address", host)),
                               !.score = @ + IpPoints,
                               !.has_ip = TRUE]
               ELSE st
        st2 == IF has_xn(host)
               THEN [st1 EXCEPT !.reasons = Append(@, Reason("Fallback: Punycode domain detected")),
                                !.score = @ + PunycodePoints]
               ELSE st1
        mismatch == /\ sender_domain # <<>>
                    /\ sender_domain \notin generic_domains
                    /\ ~LinkIsSafe(sender_domain, host)
                    /\ ~st2.mismatch_counted
        st3 == IF mismatch
               THEN [st2 EXCEPT !.reasons = Append(@, ReasonMismatch(sender_domain, host)),
                                !.score = @ + MismatchPoints,
                                !.mismatch_counted = TRUE]
               ELSE st2
    IN IF st.raised THEN st
       ELSE IF h.raised THEN [st EXCEPT !.raised = TRUE]
       ELSE IF host = <<>> THEN st
       ELSE st3

\* the loop of line 80 over urls[i:], from the loop state st
RECURSIVE HeuristicLoop(_, _, _, _)
HeuristicLoop(st, urls, i, sender_domain) ==
    IF i > Len(urls) \/ st.raised THEN st
    ELSE LET next == HeuristicUrlStep(st, urls[i], sender_domain)
         IN HeuristicLoop(next, urls, i + 1, sender_domain)

\* a late cut: 65 is still labelled suspicious
HeuristicLabelLateCut(score) ==
    IF score > HeuristicPhishingCut THEN "phishing"
    ELSE IF score >= HeuristicSuspiciousCut THEN "suspicious"
    ELSE "benign"

\* line 107
HeuristicLabel(score) ==
    IF score >= HeuristicPhishingCut THEN "phishing"
    ELSE IF score >= HeuristicSuspiciousCut THEN "suspicious"
    ELSE "benign"

\* the result (score, label, reasons), or raised = TRUE for the exception
\* urlparse lets out of the loop
heuristic_detect_fallback(e) ==
    LET scam == \E p \in scam_phrases : InText(p, e.body_text)
        urgent == \E w \in urgent_words : InText(w, e.subject) \/ InText(w, e.body_text)
        r1 == IF scam THEN <<Reason("Fallback: Financial scam language detected")>> ELSE <<>>
        r2 == IF urgent THEN Append(r1, Reason("Fallback: Urgent/Threatening language")) ELSE r1
        st0 == [score |-> (IF scam THEN ScamPoints ELSE 0) + (IF urgent THEN UrgentPoints ELSE 0),
                reasons |-> r2, mismatch_counted |-> FALSE, has_ip |-> FALSE, raised |-> FALSE]
        st == HeuristicLoop(st0, Take(e.extracted_urls, HeuristicUrlLimit), 1, SenderDomain(e))
        score == Min(100, st.score)
    IN [raised |-> st.raised, score |-> score, label |-> HeuristicLabel(score),
        reasons |-> st.reasons]

----------------------------------------------------------------------------
(* Classifier adapter: ai_engine.detect_email_with_local_ai *)

\* JSON values of the backend's answer
JAbsent == [t |-> "absent", n |-> 0, s |-> "", items |-> <<>>]
JNull == [t |-> "null", n |-> 0, s |-> "", items |-> <<>>]
JInt(n) == [t |-> "int", n |-> n, s |-> "", items |-> <<>>]
JStr(s) == [t |-> "str", n |-> 0, s |-> s, items |-> <<>>]
JList(items) == [t |-> "list", n |-> 0, s |-> "", items |-> items]

\* the except branch, lines 84-86
Sentinel ==
    [score |-> JInt(SentinelScore), label |-> JStr("suspicious"),
     reasons |-> JList(<<Reason("AI Error")>>)]

\* out.kind = "error": the call raised, or the content is no JSON object;
\* out.kind = "json": out.data holds the object's fields, keys already folded
\* to lower case (lines 74-76)
detect_email_with_local_ai(out) ==
    IF out.kind = "error" THEN Sentinel
    ELSE [score |-> IF out.data.score.t = "absent" /\ out.data.risk_score.t # "absent"
                    THEN out.data.risk_score ELSE out.data.score,
          label |-> out.data.label,
          reasons |-> out.data.reasons]

----------------------------------------------------------------------------
(* Detection orchestrator: detect *)

\* int(ai.get("score", 0)): ValueError / TypeError for a string or null
IntOf(v) ==
    IF v.t = "absent" THEN [raised |-> FALSE, n |-> 0]
    ELSE IF v.t = "int" THEN [raised |-> FALSE, n |-> v.n]
    ELSE [raised |-> TRUE, n |-> 0]

\* str(ai.get("label", "benign")).lower()
LabelOf(v) ==
    IF v.t = "absent" THEN "benign"
    ELSE IF v.t = "str" THEN Lower(v.s)
    ELSE IF v.t = "null" THEN "none"
    ELSE "other"

\* str(x).strip() is empty
IsBlank(r) == r.text \in {"", " "}

RECURSIVE DropBlank(_)
DropBlank(rs) ==
    IF rs = <<>> THEN <<>>
    ELSE IF IsBlank(Head(rs)) THEN DropBlank(Tail(rs))
    ELSE <<Head(rs)>> \o DropBlank(Tail(rs))

\* lines 345-351: ai.get("reasons", []) or [], then the list or the one string
ReasonsOf(v) ==
    IF v.t = "list" THEN DropBlank(v.items)
    ELSE IF v.t = "str" /\ v.s # "" THEN <<Reason(v.s)>>
    ELSE IF v.t = "int" /\ v.n # 0 THEN <<Reason("number")>>
    ELSE <<>>

\* lines 376-377: first occurrences, in order
RECURSIVE Dedupe(_, _)
Dedupe(rs, seen) ==
    IF rs = <<>> THEN <<>>
    ELSE IF Head(rs) \in seen THEN Dedupe(Tail(rs), seen)
    ELSE <<Head(rs)>> \o Dedupe(Tail(rs), seen \cup {Head(rs)})

\* lines 354-360, the loop over urls[i:]: [has_ip_link, has_punycode, raised]
RECURSIVE TechCheck(_, _, _)
TechCheck(urls, i, st) ==
    IF i > Len(urls) \/ st.raised THEN st
    ELSE LET h == url_hostname(urls[i])
             st1 == IF h.raised THEN [st EXCEPT !.raised = TRUE]
                    ELSE IF h.host = <<>> THEN st
                    ELSE [st EXCEPT !.has_ip_link = @ \/ looks_like_ip(h.host),
                                    !.has_punycode = @ \/ has_xn(h.host)]
         IN TechCheck(urls, i + 1, st1)

\* lines 371-374
ConsistencyRepair(label, score) ==
    IF label = "benign" /\ score > BenignRepairAbove THEN BenignRepairScore
    ELSE IF label = "phishing" /\ score < PhishingRepairBelow THEN PhishingRepairScore
    ELSE score

\* lines 343-377, the body of the try block up to the Detection: the result,
\* or raised = TRUE for an exception the except of line 384 catches
DetectWithAi(e, ai) ==
    LET sc == IntOf(ai.score)
        tech == TechCheck(Take(e.extracted_urls, GuardrailUrlLimit), 1,
                          [has_ip_link |-> FALSE, has_punycode |-> FALSE, raised |-> FALSE])
        override == (tech.has_ip_link \/ tech.has_punycode) /\ sc.n < GuardrailFloor
        score1 == IF override THEN GuardrailScore ELSE sc.n
        label == IF override THEN "phishing" ELSE LabelOf(ai.label)
        rs0 == ReasonsOf(ai.reasons)
        rs1 == IF override
               THEN Append(rs0, Reason("System Override: Technical indicator (raw IP / punycode) present."))
               ELSE rs0
        score2 == Max(0, Min(100, score1))
    IN [raised |-> sc.raised \/ tech.raised,
        label |-> label,
        risk_score |-> ConsistencyRepair(label, score2),
        reasons |-> Dedupe(rs1, {})]

\* line 38
ai_enabled == ollama_base_url

NoResult == [label |-> "", risk_score |-> 0, reasons |-> <<>>]

\* an HTTP response: the status code and what the handler put in it, with the
\* request it answers
NoResp ==
    [op |-> "none", code |-> 0, email_id |-> "", use_llm |-> FALSE,
     ai_called |-> FALSE, ai_failed |-> FALSE, path |-> "none",
     result |-> NoResult, job_id |-> 0, link_index |-> 0, status |-> "",
     runner_error |-> "", name |-> "", safe_body |-> <<>>, listing |-> <<>>]

Received(op) == [calls EXCEPT ![op] = @ + 1]

Answered200(op) == [completed EXCEPT ![op] = @ + 1]

\* an upsert: the new row takes the place of the latest row of the table
db_add_replacing(table, row) ==
    IF table = <<>> THEN <<row>> ELSE [table EXCEPT ![Len(table)] = row]

\* an insert that drops a row equal to one the table already holds
db_add_if_new(table, row) ==
    IF \E i \in DOMAIN table : table[i] = row THEN table ELSE Append(table, row)

\* db.add(row); db.commit() of a new object (lines 379-381, 395-397, 414-415):
\* an INSERT, the row gets the next autoincrement id
db_add(table, row) == Append(table, row)

\* lines 389-399: the heuristic path; rq is the response so far.  An exception
\* of the heuristic engine leaves the handler: no row, the framework's 500
detect_heuristics(email_id, rq) ==
    \E h \in {heuristic_detect_fallback(emails[email_id])} :
        LET reasons == IF ai_enabled
                       THEN Append(h.reasons, Reason("Note: AI analysis failed; used heuristics"))
                       ELSE h.reasons
            result == [label |-> h.label, risk_score |-> h.score, reasons |-> reasons]
        IN IF h.raised
           THEN /\ UNCHANGED <<detections, completed>>
                /\ resp' = [rq EXCEPT !.code = 500]
           ELSE /\ detections' = db_add(detections, [email_id |-> email_id] @@ result)
                /\ completed' = Answered200("detect")
                /\ resp' = [rq EXCEPT !.code = 200, !.path = "heuristic", !.result = result]

\* lines 338-387: the classifier path; an exception in the try block falls
\* through to the heuristic path
detect_ai(email_id, rq, out) ==
    \E r \in {DetectWithAi(emails[email_id], detect_email_with_local_ai(out))} :
        LET result == [label |-> r.label, risk_score |-> r.risk_score, reasons |-> r.reasons]
        IN IF r.raised
           THEN detect_heuristics(email_id, rq)
           ELSE /\ detections' = db_add(detections, [email_id |-> email_id] @@ result)
                /\ completed' = Answered200("detect")
                /\ resp' = [rq EXCEPT !.code = 200, !.path = "ai", !.result = result]

\* POST /emails/{email_id}/detect, lines 325-399; out is what the classifier
\* backend does if it is called
detect(email_id, use_llm, out) ==
    LET rq == [NoResp EXCEPT !.op = "detect", !.email_id = email_id, !.use_llm = use_llm]
        try_ai == use_llm /\ ai_enabled
        rq1 == [rq EXCEPT !.ai_called = try_ai, !.ai_failed = try_ai /\ out.kind = "error"]
    IN
    /\ calls' = Received("detect")
    /\ UNCHANGED <<ollama_base_url, emails, rewrites, jobs, artifacts, files, reqs>>
    /\ IF email_id \notin DOMAIN emails
       THEN /\ resp' = [rq EXCEPT !.code = 404]
            /\ UNCHANGED <<detections, completed>>
       ELSE IF try_ai
       THEN detect_ai(email_id, rq1, out)
       ELSE detect_heuristics(email_id, rq1)

----------------------------------------------------------------------------
(* Rewrite: _strip_links and the rewrite handler *)

\* Where links matter a text is cut finer: a scheme prefix ("http://",
\* "https://" in any letter case), a whitespace character, a quote character
\* and a run of other characters are tokens of their own, and the text is
\* the concatenation of its tokens.

\* https?:// under re.IGNORECASE, line 112
IsScheme(tok) == Lower(tok) \in {"http://", "https://"}

\* the characters [^\s'\"] excludes, line 112
LinkStops == {" ", "'", "\""}

\* the end of the run [^\s'\"]+ that starts at position i: the position of the
\* first whitespace or quote from i on, or past the end of the text
RECURSIVE LinkEnd(_, _)
LinkEnd(text, i) ==
    IF i > Len(text) \/ text[i] \in LinkStops THEN i ELSE LinkEnd(text, i + 1)

\* re.sub from position i on: a scheme prefix followed by at least one
\* character that is neither whitespace nor a quote is replaced with its run
RECURSIVE StripFrom(_, _)
StripFrom(text, i) ==
    IF i > Len(text) THEN <<>>
    ELSE IF IsScheme(text[i]) /\ i < Len(text) /\ text[i + 1] \notin LinkStops
    THEN <<"[LINK REMOVED]">> \o StripFrom(text, LinkEnd(text, i + 1))
    ELSE <<text[i]>> \o StripFrom(text, i + 1)

\* lines 111-112
strip_links(text) == StripFrom(text, 1)

\* POST /emails/{email_id}/rewrite, lines 402-416; use_llm is not read
rewrite(email_id, use_llm) ==
    LET rq == [NoResp EXCEPT !.op = "rewrite", !.email_id = email_id, !.use_llm = use_llm]
    IN
    /\ calls' = Received("rewrite")
    /\ UNCHANGED <<ollama_base_url, emails, detections, jobs, artifacts, files, reqs>>
    /\ IF email_id \notin DOMAIN emails
       THEN /\ resp' = [rq EXCEPT !.code = 404]
            /\ UNCHANGED <<rewrites, completed>>
       ELSE \E safe \in {strip_links(emails[email_id].body_text)} :
            /\ rewrites' = db_add(rewrites,
                   [email_id |-> email_id, safe_subject |-> emails[email_id].subject,
                    safe_body |-> safe, used_llm |-> FALSE])
            /\ completed' = Answered200("rewrite")
            /\ resp' = [rq EXCEPT !.code = 200, !.safe_body = safe]

----------------------------------------------------------------------------
(* Render-isolation job manager: open_safely *)

manifest == <<"desktop.png", "mobile.png", "iocs.json", "text.txt", "meta.json">>

mime(name) ==
    IF name \in {"desktop.png", "mobile.png"} THEN "image/png"
    ELSE IF name = "text.txt" THEN "text/plain"
    ELSE "application/json"

\* an off-by-one bound: link_index = len(urls) passes
ValidLinkIndexOffByOne(link_index, urls) == ~(link_index < 0 \/ link_index > Len(urls))

\* line 427, with link_index counted from 0
ValidLinkIndex(link_index, urls) == ~(link_index < 0 \/ link_index >= Len(urls))

\* a dispatch that skips running
DispatchStatusSkipped == "done"

\* line 446
DispatchStatus == "running"

\* urls[link_index], line 430: Python counts a negative index from the end
\* and raises IndexError outside -len..len-1
UrlAt(urls, link_index) ==
    IF 0 <= link_index /\ link_index < Len(urls)
    THEN [raised |-> FALSE, at |-> link_index + 1]
    ELSE IF link_index < 0 /\ 0 - link_index <= Len(urls)
    THEN [raised |-> FALSE, at |-> Len(urls) + link_index + 1]
    ELSE [raised |-> TRUE, at |-> 0]

\* lines 421-442: validation, then the job row, committed as queued
open_safely(email_id, link_index, allow_target_origin) ==
    LET rq == [NoResp EXCEPT !.op = "open_safely", !.email_id = email_id,
                             !.link_index = link_index]
        job_id == Len(jobs) + 1
    IN
    /\ calls' = Received("open_safely")
    /\ UNCHANGED <<ollama_base_url, emails, rewrites, completed, detections, artifacts, files>>
    /\ IF email_id \notin DOMAIN emails
       THEN /\ resp' = [rq EXCEPT !.code = 404]
            /\ UNCHANGED <<jobs, reqs>>
       ELSE IF ~ValidLinkIndex(link_index, emails[email_id].extracted_urls)
       THEN /\ resp' = [rq EXCEPT !.code = 400]
            /\ UNCHANGED <<jobs, reqs>>
       ELSE LET urls == emails[email_id].extracted_urls
                url == UrlAt(urls, link_index)
            IN IF url.raised
               THEN /\ resp' = [rq EXCEPT !.code = 500]
                    /\ UNCHANGED <<jobs, reqs>>
               ELSE /\ jobs' = Append(jobs,
                          [job_id |-> job_id, email_id |-> email_id,
                           target_url |-> urls[url.at],
                           allow_target_origin |-> allow_target_origin,
                           status |-> "queued", error |-> "",
                           started |-> FALSE, finished |-> FALSE])
                    /\ reqs' = Append(reqs,
                          [pc |-> "created", email_id |-> email_id,
                           link_index |-> link_index, status_code |-> 0, text |-> ""])
                    /\ UNCHANGED resp

\* lines 446-448: running, committed before the renderer is called
open_safely_dispatch(j) ==
    /\ reqs[j].pc = "created"
    /\ jobs' = [jobs EXCEPT ![j].status = DispatchStatus, ![j].started = TRUE]
    /\ reqs' = [reqs EXCEPT ![j].pc = "calling"]
    /\ UNCHANGED <<ollama_base_url, emails, rewrites, completed, detections, artifacts, files, calls, resp>>

\* lines 450-459: the renderer answers; it has written the files named
renderer_responds(j, status_code, text, names) ==
    /\ reqs[j].pc = "calling"
    /\ reqs' = [reqs EXCEPT ![j].pc = "responded", ![j].status_code = status_code,
                            ![j].text = text]
    /\ files' = files \cup {<<j, n>> : n \in names}
    /\ UNCHANGED <<ollama_base_url, emails, rewrites, completed, detections, jobs, artifacts, calls, resp>>

\* lines 450-459: client.post raises (connection refused, the 60 s timeout);
\* nothing catches it, the request ends with the framework's 500
renderer_call_raises(j) ==
    /\ reqs[j].pc = "calling"
    /\ reqs' = [reqs EXCEPT ![j].pc = "ended"]
    /\ resp' = [NoResp EXCEPT !.op = "open_safely", !.email_id = reqs[j].email_id,
                              !.link_index = reqs[j].link_index, !.code = 500]
    /\ UNCHANGED <<ollama_base_url, emails, rewrites, completed, detections, jobs, artifacts, files, calls>>

\* lines 461-470: the terminal status, committed
open_safely_finish(j) ==
    LET rq == [NoResp EXCEPT !.op = "open_safely", !.email_id = reqs[j].email_id,
                             !.link_index = reqs[j].link_index, !.job_id = j]
    IN
    /\ reqs[j].pc = "responded"
    /\ UNCHANGED <<ollama_base_url, emails, rewrites, completed, detections, artifacts, files, calls>>
    /\ IF reqs[j].status_code # RendererOk
       THEN /\ jobs' = [jobs EXCEPT ![j].status = "failed", ![j].error = reqs[j].text,
                                    ![j].finished = TRUE]
            /\ reqs' = [reqs EXCEPT ![j].pc = "ended"]
            /\ resp' = [rq EXCEPT !.code = 502, !.runner_error = reqs[j].text]
       ELSE /\ jobs' = [jobs EXCEPT ![j].status = "done", ![j].finished = TRUE]
            /\ reqs' = [reqs EXCEPT ![j].pc = "scan"]
            /\ UNCHANGED resp

\* the rows of lines 481-486 for the manifest names from position i on
\* a scan that registers every manifest name, found or not
RECURSIVE ScanManifestUnchecked(_, _)
ScanManifestUnchecked(j, i) ==
    IF i > Len(manifest) THEN <<>>
    ELSE <<[job_id |-> j, name |-> manifest[i], sha256 |-> "",
            mime |-> mime(manifest[i]), has_size |-> TRUE]>> \o ScanManifestUnchecked(j, i + 1)

\* sha256 "" is None: line 485 sets sha = None and nothing computes a hash
RECURSIVE ScanManifest(_, _)
ScanManifest(j, i) ==
    IF i > Len(manifest) THEN <<>>
    ELSE (IF <<j, manifest[i]>> \in files
          THEN <<[job_id |-> j, name |-> manifest[i], sha256 |-> "",
                  mime |-> mime(manifest[i]), has_size |-> TRUE]>>
          ELSE <<>>) \o ScanManifest(j, i + 1)

\* lines 472-498: the artifact rows, committed, and the 200
open_safely_scan(j) ==
    /\ reqs[j].pc = "scan"
    /\ artifacts' = artifacts \o ScanManifest(j, 1)
    /\ reqs' = [reqs EXCEPT ![j].pc = "ended"]
    /\ resp' = [NoResp EXCEPT !.op = "open_safely", !.email_id = reqs[j].email_id,
                              !.link_index = reqs[j].link_index, !.job_id = j,
                              !.code = 200]
    /\ UNCHANGED <<ollama_base_url, emails, rewrites, completed, detections, jobs, files, calls>>

\* GET /open-safely/status/{job_id}, lines 500-515
open_safely_status(job_id) ==
    /\ calls' = Received("status")
    /\ resp' = IF job_id \in DOMAIN jobs
               THEN [NoResp EXCEPT !.op = "status", !.code = 200, !.job_id = job_id,
                                   !.email_id = jobs[job_id].email_id,
                                   !.status = jobs[job_id].status]
               ELSE [NoResp EXCEPT !.op = "status", !.code = 404, !.job_id = job_id]
    /\ UNCHANGED <<ollama_base_url, emails, rewrites, completed, detections, jobs, artifacts, files, reqs>>

\* the rows of job_id in id order, line 523
RECURSIVE ArtifactsOf(_, _)
ArtifactsOf(job_id, i) ==
    IF i > Len(artifacts) THEN <<>>
    ELSE (IF artifacts[i].job_id = job_id THEN <<artifacts[i]>> ELSE <<>>)
         \o ArtifactsOf(job_id, i + 1)

\* GET /open-safely/artifacts/{job_id}, lines 517-537
open_safely_artifacts(job_id) ==
    /\ calls' = Received("artifacts")
    /\ resp' = IF job_id \in DOMAIN jobs
               THEN [NoResp EXCEPT !.op = "artifacts", !.code = 200, !.job_id = job_id,
                                   !.status = jobs[job_id].status,
                                   !.listing = ArtifactsOf(job_id, 1)]
               ELSE [NoResp EXCEPT !.op = "artifacts", !.code = 404, !.job_id = job_id]
    /\ UNCHANGED <<ollama_base_url, emails, rewrites, completed, detections, jobs, artifacts,
                   files, reqs>>

\* GET /open-safely/download/{job_id}?name=..., lines 539-549: the row is
\* looked up by job_id and name, then the file by the row's rel_path
open_safely_download(job_id, name) ==
    LET rq == [NoResp EXCEPT !.op = "download", !.job_id = job_id, !.name = name]
        rows == ArtifactsOf(job_id, 1)
        found == \E i \in DOMAIN rows : rows[i].name = name
    IN
    /\ calls' = Received("download")
    /\ resp' = IF ~found THEN [rq EXCEPT !.code = 404]
               ELSE IF <<job_id, name>> \notin files THEN [rq EXCEPT !.code = 404]
               ELSE [rq EXCEPT !.code = 200]
    /\ UNCHANGED <<ollama_base_url, emails, rewrites, completed, detections, jobs, artifacts,
                   files, reqs>>

----------------------------------------------------------------------------
(* The inputs: emails as upload_eml stores them, requests, the backends *)

\* a URL of extracted_urls: key is its place in the sorted order of the URL
\* strings (line 144), host its hostname, bracket an unmatched [ or ]
Url(key, host, bracket) == [key |-> key, host |-> host, bracket |-> bracket]

UrlNoHost == Url(0, <<>>, FALSE)                                 \* http:///x
UrlIp == Url(100, <<"192", "168", "1", "5">>, FALSE)             \* http://192.168.1.5/login
UrlBracket == Url(101, <<>>, TRUE)                               \* http://[
UrlAmazonUk == Url(102, <<"www", "amazon", "co", "uk">>, FALSE)
UrlPaypal == Url(103, <<"www", "paypal", "com">>, FALSE)
UrlPuny == Url(104, <<"xn--pypal-4ve", "com">>, FALSE)
UrlPunyNet == Url(105, <<"xn--pypal-4ve", "net">>, FALSE)
UrlYoutube == Url(106, <<"youtube", "com">>, FALSE)

UrlPool == {UrlNoHost, UrlIp, UrlBracket, UrlAmazonUk, UrlPaypal, UrlPuny, UrlPunyNet,
            UrlYoutube}

\* http://0pad.example.net/p01 ... : n URLs that sort before the pool's
Pad(n) == [i \in 1..n |-> Url(i, <<"0pad", "example", "net">>, FALSE)]

\* sorted(set(...)): strictly increasing in the sort key
IsSorted(urls) == \A i \in 1..(Len(urls) - 1) : urls[i].key < urls[i + 1].key

ShortUrlLists ==
    {urls \in UNION {[1..n -> UrlPool] : n \in 0..MaxUrls} : IsSorted(urls)}

\* a technical indicator as the last URL the heuristic loop sees, the first
\* it does not see, and the first the guardrail loop does not see
LongUrlLists ==
    {Pad(HeuristicUrlLimit - 1) \o <<UrlIp>>,
     Pad(HeuristicUrlLimit) \o <<UrlIp>>,
     Pad(GuardrailUrlLimit) \o <<UrlPuny>>}

NoAt == [has_at |-> FALSE, domain |-> <<>>]
From(domain) == [has_at |-> TRUE, domain |-> domain]

Senders == {NoAt, From(<<"mail", "paypal", "com">>), From(<<"gmail", "com">>),
            From(<<"google", "com">>)}

Texts == {[subject |-> <<>>, body_text |-> <<"hello">>],
          [subject |-> <<"security alert">>, body_text |-> <<"hello">>],
          [subject |-> <<>>, body_text |-> <<"verify", "IMMEDIATELY">>],
          [subject |-> <<>>, body_text |-> <<"western union">>],
          [subject |-> <<"security alert">>, body_text |-> <<"hello", "western union">>]}

Email(t, from_addr, urls) ==
    [subject |-> t.subject, body_text |-> t.body_text, from_addr |-> from_addr,
     extracted_urls |-> urls]

EmailCatalog ==
    {Email(t, f, urls) : t \in Texts, f \in Senders, urls \in ShortUrlLists \cup LongUrlLists}

\* the emails of the job manager's behaviours: no URL, two URLs
JobEmails ==
    {Email([subject |-> <<>>, body_text |-> <<"hello">>], NoAt, urls) :
        urls \in {<<>>, <<UrlIp, UrlPaypal>>}}

EmailIds == {"e0", "e1"}      \* e1 is ingested, e0 is not

\* the body texts of the rewrite behaviours, token by token: scheme prefixes
\* in three letter cases, a space, a quote, a word and the rest of a link
LinkTail == "192.168.1.5/login"
BodyTokens == {"http://", "HTTP://", "https://", " ", "'", "click", LinkTail}

\* a scheme prefix is followed by a space, a quote, the end of the text or the
\* link's rest, and the link ends there: the links of the bodies are the three
\* URLs of LinkOf
LinksAreWhole(b) ==
    \A i \in 1..(Len(b) - 1) :
        /\ IsScheme(b[i]) => b[i + 1] \in LinkStops \cup {LinkTail}
        /\ b[i] = LinkTail => b[i + 1] \in LinkStops

BodyTexts ==
    {b \in UNION {[1..n -> BodyTokens] : n \in 0..MaxBodyLen} : LinksAreWhole(b)}

\* the URL a scheme prefix and the link's rest make; HTTP://... sorts before
\* and https://... after every http://... string
LinkOf(scheme) ==
    IF scheme = "HTTP://" THEN Url(0 - 1, UrlIp.host, FALSE)
    ELSE IF scheme = "https://" THEN Url(200, UrlIp.host, FALSE)
    ELSE UrlIp

\* sorted(...) of a set of URLs, line 144
RECURSIVE Sorted(_)
Sorted(us) ==
    IF us = {} THEN <<>>
    ELSE LET first == CHOOSE u \in us : \A v \in us : u.key <= v.key
         IN <<first>> \o Sorted(us \ {first})

\* lines 141-144, on a body text of BodyTexts
extract_urls(b) ==
    Sorted({LinkOf(b[i]) : i \in {k \in 1..(Len(b) - 1) : IsScheme(b[k]) /\ b[k + 1] = LinkTail}})

RewriteEmails ==
    {Email([subject |-> <<"hello">>, body_text |-> b], NoAt, extract_urls(b)) : b \in BodyTexts}

\* what the classifier backend may do
RawLabels == {JAbsent, JNull, JStr("benign"), JStr("suspicious"), JStr("PHISHING"),
              JStr("malicious")}
RawScores == {JAbsent, JStr("high"), JInt(-5), JInt(10), JInt(35), JInt(59), JInt(79),
              JInt(80), JInt(95), JInt(150)}
RawReasons == {JAbsent, JList(<<Reason("Suspicious sender"), Reason(" "),
                               Reason("Suspicious sender")>>)}

Raw(l, s, k, r) ==
    [kind |-> "json", data |-> [label |-> l, score |-> s, risk_score |-> k, reasons |-> r]]

\* the call fails or answers no JSON object; an object with label, score and
\* reasons; an object that names its score risk_score
ClassifierOutcomes ==
    {[kind |-> "error", data |-> Raw(JAbsent, JAbsent, JAbsent, JAbsent).data]}
    \cup {Raw(l, s, JAbsent, r) : l \in RawLabels, s \in RawScores, r \in RawReasons}
    \cup {Raw(l, JAbsent, JInt(70), JAbsent) : l \in RawLabels}

\* what the renderer may answer, and the files it may have written by then
RendererAnswers == {[status_code |-> 200, text |-> "ok"],
                    [status_code |-> 201, text |-> "created"],
                    [status_code |-> 500, text |-> "render crashed"]}
RendererFiles == {{}, {"desktop.png", "iocs.json", "trace.har"}}

\* the name parameter of artifact-download: manifest names, a file the
\* renderer wrote that is not in the manifest, a path outside the job
DownloadNames == {"desktop.png", "mobile.png", "trace.har", "../../etc/passwd"}

LinkIndexes == (0 - 1)..(MaxUrls + 1)

\* allow_target_origin as requests send it: the default of OpenSafelyRequest
AllowFlags == {FALSE}

----------------------------------------------------------------------------
(* Specifications *)

NoCalls ==
    [op \in {"detect", "rewrite", "open_safely", "status", "artifacts", "download"} |-> 0]

InitTables ==
    /\ detections = <<>>
    /\ rewrites = <<>>
    /\ completed = [op \in {"detect", "rewrite"} |-> 0]
    /\ jobs = <<>>
    /\ artifacts = <<>>
    /\ files = {}
    /\ reqs = <<>>
    /\ calls = NoCalls
    /\ resp = NoResp

\* the job manager: one ingested email, open-safely requests interleaved at
\* their commits and at the renderer call, and job-status reads
InitJobs ==
    /\ ollama_base_url \in BOOLEAN
    /\ \E e \in JobEmails : emails = [id \in {"e1"} |-> e]
    /\ InitTables

OpenSafely ==
    /\ calls["open_safely"] < MaxOpenCalls
    /\ \E id \in EmailIds, i \in LinkIndexes, allow \in AllowFlags : open_safely(id, i, allow)

OpenSafelyDispatch == \E j \in DOMAIN reqs : open_safely_dispatch(j)

RendererResponds ==
    \E j \in DOMAIN reqs, a \in RendererAnswers, names \in RendererFiles :
        renderer_responds(j, a.status_code, a.text, names)

RendererCallRaises == \E j \in DOMAIN reqs : renderer_call_raises(j)

OpenSafelyFinish == \E j \in DOMAIN reqs : open_safely_finish(j)

OpenSafelyScan == \E j \in DOMAIN reqs : open_safely_scan(j)

OpenSafelyStatus ==
    /\ calls["status"] < MaxReadCalls
    /\ \E j \in 1..MaxOpenCalls : open_safely_status(j)

NextJobs ==
    \/ OpenSafely
    \/ OpenSafelyDispatch
    \/ RendererResponds
    \/ RendererCallRaises
    \/ OpenSafelyFinish
    \/ OpenSafelyScan
    \/ OpenSafelyStatus

SpecJobs == InitJobs /\ [][NextJobs]_vars

\* the detection orchestrator: any email of the catalog, one detect request
\* (detect reads the email alone, nothing an earlier request wrote)
InitDetect ==
    /\ ollama_base_url \in BOOLEAN
    /\ \E e \in EmailCatalog : emails = [id \in {"e1"} |-> e]
    /\ InitTables

Detect ==
    /\ calls["detect"] = 0
    /\ \E id \in EmailIds, use_llm \in BOOLEAN, out \in ClassifierOutcomes :
          detect(id, use_llm, out)

NextDetect == Detect

SpecDetect == InitDetect /\ [][NextDetect]_vars

\* the rewrite handler: one ingested email, one rewrite request
InitRewrite ==
    /\ ollama_base_url \in BOOLEAN
    /\ \E e \in RewriteEmails : emails = [id \in {"e1"} |-> e]
    /\ InitTables

Rewrite ==
    /\ calls["rewrite"] = 0
    /\ \E id \in EmailIds, use_llm \in BOOLEAN : rewrite(id, use_llm)

NextRewrite == Rewrite

SpecRewrite == InitRewrite /\ [][NextRewrite]_vars

\* the whole API: one ingested email, "verify IMMEDIATELY
\* http://192.168.1.5/login" from a paypal.com sender, and requests of every
\* operation in any order, the open-safely requests interleaved with all others
\* at their commits and at the renderer call
ApiEmail ==
    Email([subject |-> <<>>,
           body_text |-> <<"verify", " ", "IMMEDIATELY", " ", "http://", LinkTail>>],
          From(<<"mail", "paypal", "com">>),
          extract_urls(<<"verify", " ", "IMMEDIATELY", " ", "http://", LinkTail>>))

ApiOutcomes ==
    {[kind |-> "error", data |-> Raw(JAbsent, JAbsent, JAbsent, JAbsent).data],
     Raw(JStr("benign"), JInt(10), JAbsent, JAbsent)}

\* the requests received so far
Requests ==
    calls["detect"] + calls["rewrite"] + calls["open_safely"] + calls["status"]
    + calls["artifacts"] + calls["download"]

\* the job ids of the read requests: every job there is, and one there is not
ReadJobIds == 1..(Len(jobs) + 1)

Init ==
    /\ ollama_base_url \in BOOLEAN
    /\ emails = [id \in {"e1"} |-> ApiEmail]
    /\ InitTables

ApiDetect ==
    /\ Requests < MaxRequests
    /\ \E id \in EmailIds, use_llm \in BOOLEAN, out \in ApiOutcomes : detect(id, use_llm, out)

ApiRewrite ==
    /\ Requests < MaxRequests
    /\ \E id \in EmailIds, use_llm \in BOOLEAN : rewrite(id, use_llm)

ApiOpenSafely ==
    /\ Requests < MaxRequests
    /\ \E id \in EmailIds, i \in 0..1, allow \in AllowFlags : open_safely(id, i, allow)

ApiStatus ==
    /\ Requests < MaxRequests
    /\ \E j \in ReadJobIds : open_safely_status(j)

ApiArtifacts ==
    /\ Requests < MaxRequests
    /\ \E j \in ReadJobIds : open_safely_artifacts(j)

ApiDownload ==
    /\ Requests < MaxRequests
    /\ \E j \in ReadJobIds, name \in DownloadNames : open_safely_download(j, name)

Next ==
    \/ ApiDetect
    \/ ApiRewrite
    \/ ApiOpenSafely
    \/ OpenSafelyDispatch
    \/ RendererResponds
    \/ RendererCallRaises
    \/ OpenSafelyFinish
    \/ OpenSafelyScan
    \/ ApiStatus
    \/ ApiArtifacts
    \/ ApiDownload

Spec == Init /\ [][Next]_vars

----------------------------------------------------------------------------
(* Properties of the job manager, under SpecJobs *)

Terminal == {"done", "failed"}

StatusSteps == {<<"queued", "running">>, <<"running", "done">>, <<"running", "failed">>}

\* C1: every job row is created as queued, every change of a job's status is
\* queued -> running, running -> done or running -> failed, and no step
\* removes a job row; so a job reaches done or failed only from running, and
\* no step of any operation changes a done or failed status.
C1_StatusHistory ==
    [][/\ Len(jobs') >= Len(jobs)
       /\ \A j \in DOMAIN jobs' :
             IF j \in DOMAIN jobs
             THEN \/ jobs'[j].status = jobs[j].status
                  \/ <<jobs[j].status, jobs'[j].status>> \in StatusSteps
             ELSE jobs'[j].status = "queued"]_vars

\* C1 witness: one job is done, another failed, and both requests have ended
C1_Witness ==
    \E j, k \in DOMAIN jobs :
        /\ jobs[j].status = "done" /\ jobs[k].status = "failed"
        /\ reqs[j].pc = "ended" /\ reqs[k].pc = "ended"

\* C2: once the open-safely request that created a job has ended, the job is
\* in a terminal state (done or failed), whatever the renderer call did.
C2_EndedRequestLeavesTerminalJob ==
    \A j \in DOMAIN reqs : reqs[j].pc = "ended" => jobs[j].status \in Terminal

\* C3: when the renderer has answered with a 2xx status the job is persisted
\* as done; with any other status it is persisted as failed with the response
\* body as its error, and the caller gets the 502 that carries the job id.
C3_TerminalStateByResponseClass ==
    /\ \A j \in DOMAIN reqs :
          reqs[j].pc \in {"scan", "ended"} /\ reqs[j].status_code # 0 =>
              IF reqs[j].status_code \in 200..299
              THEN jobs[j].status = "done"
              ELSE jobs[j].status = "failed" /\ jobs[j].error = reqs[j].text
    /\ resp.op = "open_safely" /\ resp.code \in {200, 502} =>
          /\ resp.job_id \in DOMAIN jobs
          /\ (resp.code = 200) = (reqs[resp.job_id].status_code \in 200..299)

\* C4: an open-safely request for an existing email creates a job row only
\* for a link index within 0..len-1; for any other index nothing is created or
\* changed (no job row, no renderer call, no artifact) and the response is the
\* 400 invalid-input error.
C4_InvalidIndexRejected ==
    [][calls'["open_safely"] = calls["open_safely"] + 1 =>
         IF Len(jobs') > Len(jobs)
         THEN LET j == Len(jobs')
              IN /\ reqs'[j].link_index >= 0
                 /\ reqs'[j].link_index < Len(emails[reqs'[j].email_id].extracted_urls)
         ELSE /\ resp'.op = "open_safely"
              /\ resp'.email_id \in DOMAIN emails => resp'.code = 400
              /\ UNCHANGED <<jobs, reqs, artifacts, files, detections, emails>>]_vars

\* C4 witness: with one job already created, a request with link_index equal
\* to the length of the URL list has been answered 400
C4_Witness ==
    /\ resp.op = "open_safely" /\ resp.code = 400
    /\ resp.email_id \in DOMAIN emails
    /\ resp.link_index = Len(emails[resp.email_id].extracted_urls)
    /\ Len(jobs) = 1

ManifestNames == {manifest[i] : i \in DOMAIN manifest}

HasArtifactRow(job_id, name) ==
    \E a \in DOMAIN artifacts : artifacts[a].job_id = job_id /\ artifacts[a].name = name

\* C13: an Artifact row (job, name) exists only if the job is done, the name
\* is one of the five manifest names and the file of that name is in the
\* job's artifact directory (the store never loses a file, so it was there
\* when the job was finalized); no two rows share (job, name); and
\* artifact-download answers 404 for every (job, name) without a row, whatever
\* the name.
C13_ArtifactRowsRegistered ==
    /\ \A a \in DOMAIN artifacts :
          /\ artifacts[a].job_id \in DOMAIN jobs
          /\ jobs[artifacts[a].job_id].status = "done"
          /\ artifacts[a].name \in ManifestNames
          /\ <<artifacts[a].job_id, artifacts[a].name>> \in files
    /\ \A a, b \in DOMAIN artifacts :
          a # b => <<artifacts[a].job_id, artifacts[a].name>>
                     # <<artifacts[b].job_id, artifacts[b].name>>
    /\ resp.op = "download" /\ ~HasArtifactRow(resp.job_id, resp.name) => resp.code = 404

\* C13 witness: a done job has its rows, and a download of trace.har, which
\* the renderer wrote into that job's directory but the manifest does not
\* name, has been answered 404
C13_Witness ==
    /\ resp.op = "download" /\ resp.code = 404 /\ resp.name = "trace.har"
    /\ <<resp.job_id, "trace.har">> \in files
    /\ HasArtifactRow(resp.job_id, "desktop.png")
    /\ jobs[resp.job_id].status = "done"

\* C14: every Artifact row open-safely inserts for a manifest file it found
\* carries the file's size and a content hash that is not null.
C14_ArtifactRowsCarryHash ==
    \A a \in DOMAIN artifacts : artifacts[a].has_size /\ artifacts[a].sha256 # ""

----------------------------------------------------------------------------
(* Properties of the detection orchestrator, under SpecDetect *)

\* the threshold table of the specification
ThresholdLabel(score) ==
    IF score >= 60 THEN "phishing" ELSE IF score >= 30 THEN "suspicious" ELSE "benign"

\* some URL of the list, at any position, has an IP-literal or punycode host
HasTechnicalIndicator(urls) ==
    \E i \in DOMAIN urls :
        ~urls[i].bracket /\ (looks_like_ip(urls[i].host) \/ has_xn(urls[i].host))

\* the detect request just answered was for an ingested email
DetectAnswered == resp.op = "detect" /\ resp.email_id \in DOMAIN emails

\* the heuristic engine's result for the email of the request just answered
HeuristicResult ==
    LET h == heuristic_detect_fallback(emails[resp.email_id])
    IN [label |-> h.label, risk_score |-> h.score, reasons |-> h.reasons]

AiFailedNote == Reason("Note: AI analysis failed; used heuristics")

\* C5: a detect request for an existing email has persisted exactly one
\* Detection when it is answered, and a request for a missing email none,
\* with the 404.
C5_OneDetectionPerInvocation ==
    resp.op = "detect" =>
        IF resp.email_id \in DOMAIN emails
        THEN Len(detections) = calls["detect"]
        ELSE Len(detections) = 0 /\ resp.code = 404

\* C6: when the classifier was called and its adapter returned the sentinel,
\* the Detection is the heuristic engine's score, label and reasons plus the
\* note that AI analysis failed.
C6_SentinelFallsBackToHeuristics ==
    DetectAnswered /\ resp.ai_failed /\ resp.code = 200 =>
        /\ resp.path = "heuristic"
        /\ resp.result = [HeuristicResult EXCEPT !.reasons = Append(@, AiFailedNote)]

\* C7: when the classifier is not requested or not configured it is not
\* called, and the result is exactly the heuristic engine's, with no note.
C7_NoClassifierIsPlainHeuristics ==
    DetectAnswered /\ resp.code = 200 /\ (~resp.use_llm \/ ~ollama_base_url) =>
        /\ ~resp.ai_called
        /\ resp.result = HeuristicResult

\* C8: a Detection of the classifier path for an email with an IP-literal or
\* punycode URL anywhere in its list has score >= 80 and label phishing.
C8_Guardrail ==
    /\ DetectAnswered /\ resp.code = 200 /\ resp.path = "ai"
    /\ HasTechnicalIndicator(emails[resp.email_id].extracted_urls)
    => resp.result.risk_score >= 80 /\ resp.result.label = "phishing"

\* C9: a Detection of the classifier path has a score in 0..100 and the label
\* the threshold table gives that score.
C9_ClassifierScoreLabelConsistent ==
    DetectAnswered /\ resp.code = 200 /\ resp.path = "ai" =>
        /\ resp.result.risk_score \in 0..100
        /\ resp.result.label = ThresholdLabel(resp.result.risk_score)

\* C10: every result of the heuristic engine has a score in 0..100 and the
\* label the threshold table gives that score (benign below 30, suspicious
\* from 30 to 59, phishing from 60).
C10_HeuristicScoreLabel ==
    DetectAnswered /\ resp.code = 200 /\ resp.path = "heuristic" =>
        /\ resp.result.risk_score \in 0..100
        /\ resp.result.label = ThresholdLabel(resp.result.risk_score)
        /\ detections[Len(detections)].label = resp.result.label
        /\ detections[Len(detections)].risk_score = resp.result.risk_score

\* C10 witness: a heuristic result at the lowest score the engine labels
\* phishing (urgent language and a link mismatch), and one capped at 100
C10_Witness ==
    /\ DetectAnswered /\ resp.code = 200 /\ resp.path = "heuristic"
    /\ resp.result.risk_score = 65 /\ resp.result.label = "phishing"

NoDuplicates(rs) == \A i, j \in DOMAIN rs : i # j => rs[i] # rs[j]

TimesRecorded(rs, t) == Cardinality({i \in DOMAIN rs : rs[i].text = t})

OncePerMessageSignals ==
    {"Fallback: Link uses raw IP address", "Fallback: Punycode domain detected",
     "Fallback: Link mismatch"}

\* C11: the reasons of every persisted Detection hold no string twice, on the
\* classifier path and on the heuristic path, and the heuristic engine records
\* the IP-literal, punycode and domain-mismatch signals at most once each per
\* message, however many URLs trigger them.
C11_ReasonsDistinct ==
    \A d \in DOMAIN detections :
        /\ NoDuplicates(detections[d].reasons)
        /\ resp.path = "heuristic" =>
              \A t \in OncePerMessageSignals : TimesRecorded(detections[d].reasons, t) <= 1

\* some URL the heuristic loop evaluates has an IP-literal host
IpLiteralEvaluated(e) ==
    \E i \in DOMAIN e.extracted_urls :
        /\ i <= HeuristicUrlLimit
        /\ ~e.extracted_urls[i].bracket
        /\ looks_like_ip(e.extracted_urls[i].host)

\* the subject or the body holds an urgency word, in any letter case
HasUrgencyWord(e) ==
    \E w \in urgent_words :
        \/ \E i \in DOMAIN e.subject : Lower(e.subject[i]) = w
        \/ \E i \in DOMAIN e.body_text : Lower(e.body_text[i]) = w

\* C15: a heuristic result for a message with an IP-literal URL among the
\* URLs the engine evaluates has score >= 60, label phishing and a raw-IP-link
\* reason, and an urgency-language reason too if the subject or the body
\* holds an urgency word.
C15_IpLiteralIsPhishing ==
    /\ DetectAnswered /\ resp.code = 200 /\ resp.path = "heuristic"
    /\ IpLiteralEvaluated(emails[resp.email_id])
    => /\ resp.result.risk_score >= 60
       /\ resp.result.label = "phishing"
       /\ TimesRecorded(resp.result.reasons, "Fallback: Link uses raw IP address") >= 1
       /\ HasUrgencyWord(emails[resp.email_id]) =>
             TimesRecorded(resp.result.reasons, "Fallback: Urgent/Threatening language") >= 1

\* C15 witness: the heuristic result for "verify IMMEDIATELY" with
\* http://192.168.1.5/login: both reasons, score 100, phishing
C15_Witness ==
    /\ DetectAnswered /\ resp.code = 200 /\ resp.path = "heuristic"
    /\ IpLiteralEvaluated(emails[resp.email_id])
    /\ HasUrgencyWord(emails[resp.email_id])
    /\ resp.result.risk_score = 100 /\ resp.result.label = "phishing"
    /\ TimesRecorded(resp.result.reasons, "Fallback: Link uses raw IP address") = 1
    /\ TimesRecorded(resp.result.reasons, "Fallback: Urgent/Threatening language") = 1

\* C12: the safe body of every persisted Rewrite contains neither http://
\* nor https://, whatever the body text: a scheme prefix followed by
\* whitespace, by a quote or by the end of the text, in any letter case.
C12_SafeBodyHasNoScheme ==
    \A r \in DOMAIN rewrites :
        \A i \in DOMAIN rewrites[r].safe_body :
            rewrites[r].safe_body[i] \notin {"http://", "https://"}

----------------------------------------------------------------------------
(* Properties of the whole API, under Spec *)

\* every row of the table before the step is the same row after it
RowsKept(old, new) == Len(new) >= Len(old) /\ SubSeq(new, 1, Len(old)) = old

ReadReceived ==
    \E op \in {"status", "artifacts", "download"} : calls'[op] # calls[op]

\* C16: no step of detect, rewrite, open-safely, job-status, job-artifacts or
\* artifact-download changes an Email row or changes or removes a Detection,
\* Rewrite or Artifact row that exists: those tables only gain rows, the read
\* operations write nothing, and the only rows changed in place are job rows.
C16_OnlyJobRowsChangeInPlace ==
    [][/\ emails' = emails
       /\ RowsKept(detections, detections')
       /\ RowsKept(rewrites, rewrites')
       /\ RowsKept(artifacts, artifacts')
       /\ Len(jobs') >= Len(jobs)
       /\ ReadReceived => UNCHANGED <<detections, rewrites, artifacts, jobs>>]_vars

\* C16 witness: a Detection, a Rewrite and the Artifact rows of a done job
\* are all there, each written while the others' requests came and went
C16_Witness ==
    /\ Len(detections) >= 1 /\ Len(rewrites) >= 1 /\ Len(artifacts) >= 1
    /\ \E j \in DOMAIN jobs : jobs[j].status = "done" /\ reqs[j].pc = "ended"

RowsFor(table, email_id) == Cardinality({i \in DOMAIN table : table[i].email_id = email_id})

\* C17: under any interleaving of detect, rewrite and open-safely requests for
\* one email the k detect requests that completed have left exactly k
\* Detection rows and the k completed rewrite requests exactly k Rewrite rows,
\* and a job row changes only in a step of the open-safely request that
\* created it, which changes no other job row.
C17_NoLostRowNoForeignWrite ==
    /\ [](/\ RowsFor(detections, "e1") = completed["detect"]
          /\ RowsFor(rewrites, "e1") = completed["rewrite"])
    /\ [][\A j \in DOMAIN jobs :
             jobs'[j] # jobs[j] =>
                 /\ reqs'[j].pc # reqs[j].pc
                 /\ \A k \in DOMAIN jobs : k # j => jobs'[k] = jobs[k] /\ reqs'[k] = reqs[k]]_vars

\* C17 witness: while an open-safely request waits for the renderer, two
\* detect requests with the same result have completed,
\* and both Detection rows are there
C17_Witness ==
    /\ \E j \in DOMAIN reqs : reqs[j].pc = "calling" /\ jobs[j].status = "running"
    /\ completed["detect"] = 2 /\ Len(detections) = 2 /\ detections[1] = detections[2]

====
